---------------------------- MODULE Spec2Model ----------------------------
(***************************************************************************)
(* A model of the two news converters of EasyPeek-backend:                 *)
(*   src/convert_news.py                       (class NewsConverter)       *)
(*   src/scripts/convert_localization_to_news.py (class NewsDataConverter) *)
(*                                                                         *)
(* A Python str is a sequence of characters.  An ASCII character is the    *)
(* one-character string itself; a non-ASCII character is written "uXXXX"   *)
(* with XXXX its code point (年 is "u5e74"); line feed, carriage return    *)
(* and tab are "LF", "CR" and "TAB".                                       *)
(***************************************************************************)
EXTENDS Integers, Sequences, FiniteSets, TLC

VARIABLES
  variant,         \* which program runs: "convert_file", "convert_all" or a function under call
  pc,              \* position of the run
  input,           \* the input file: [load, data]
  source_data,     \* convert_file: source_data; convert_all: data["Sheet1"]
  idx,             \* 1-based position of the batch loop
  converted_data,  \* the output accumulator (converted_data / news_items)
  skipped_count,   \* convert_file's skipped_count
  passed,          \* positions whose record was passed to convert_news_item
  output,          \* the output file: [written, doc]
  raised,          \* an exception left the entry point
  call,            \* arguments of the function under call
  ret              \* its return value

vars == <<variant, pc, input, source_data, idx, converted_data, skipped_count,
          passed, output, raised, call, ret>>

----------------------------------------------------------------------------
(* Bounds of the model *)

\* longest input collection
MaxItems == 2
\* longest body text handed to generate_summary
MaxContentLen == 4
\* largest max_length handed to generate_summary
MaxBudget == 3
\* longest title / body tail handed to analyze_category_with_ai
MaxTextLen == 2
\* longest title handed to generate_sql_inserts
MaxTitleLen == 2
\* most records in the file handed to generate_sql_inserts
MaxSqlItems == 1

----------------------------------------------------------------------------
(* Python str operations *)

Range(s) == {s[i] : i \in DOMAIN s}

\* s[:n]
Prefix(s, n) == SubSeq(s, 1, IF Len(s) < n THEN Len(s) ELSE n)

\* s[n:]  (0-based start n)
Suffix(s, n) == SubSeq(s, n + 1, Len(s))

\* does sub occur in s at 1-based position p
OccursAt(s, sub, p) ==
  /\ p >= 1
  /\ p + Len(sub) - 1 <= Len(s)
  /\ SubSeq(s, p, p + Len(sub) - 1) = sub

\* sub in s
Contains(s, sub) == \E p \in 1..(Len(s) + 1) : OccursAt(s, sub, p)

\* positions at or after p where sub occurs in s
OccurrencesFrom(s, sub, p) ==
  {q \in p..(Len(s) - Len(sub) + 1) : s[q] = sub[1] /\ OccursAt(s, sub, q)}

\* str.count(sub): non-overlapping occurrences, scanning left to right: the
\* leftmost occurrence at or after p is counted and the scan resumes behind it
RECURSIVE CountFrom(_, _, _)
CountFrom(s, sub, p) ==
  LET hits == OccurrencesFrom(s, sub, p)
  IN  IF hits = {} THEN 0
      ELSE LET first == CHOOSE q \in hits : \A r \in hits : q <= r
           IN  1 + CountFrom(s, sub, first + Len(sub))

str_count(s, sub) ==
  IF sub[1] \notin Range(s) THEN 0 ELSE CountFrom(s, sub, 1)

\* characters str.strip() and the regex class \s remove
Whitespace == {" ", "LF", "CR", "TAB"}

RECURSIVE LStrip(_)
LStrip(s) ==
  IF s # <<>> /\ Head(s) \in Whitespace THEN LStrip(Tail(s)) ELSE s

RECURSIVE RStrip(_)
RStrip(s) ==
  IF s # <<>> /\ s[Len(s)] \in Whitespace THEN RStrip(SubSeq(s, 1, Len(s) - 1)) ELSE s

\* str.strip()
Strip(s) == RStrip(LStrip(s))

Digits == {"0", "1", "2", "3", "4", "5", "6", "7", "8", "9"}

DigitVal(c) ==
  CASE c = "0" -> 0 [] c = "1" -> 1 [] c = "2" -> 2 [] c = "3" -> 3 [] c = "4" -> 4
    [] c = "5" -> 5 [] c = "6" -> 6 [] c = "7" -> 7 [] c = "8" -> 8 [] c = "9" -> 9

DigitChar(n) ==
  CASE n = 0 -> "0" [] n = 1 -> "1" [] n = 2 -> "2" [] n = 3 -> "3" [] n = 4 -> "4"
    [] n = 5 -> "5" [] n = 6 -> "6" [] n = 7 -> "7" [] n = 8 -> "8" [] n = 9 -> "9"

\* int(s) of a digit string
RECURSIVE IntOf(_)
IntOf(s) == IF s = <<>> THEN 0 ELSE 10 * IntOf(SubSeq(s, 1, Len(s) - 1)) + DigitVal(s[Len(s)])

AllDigits(s) == \A i \in DOMAIN s : s[i] \in Digits

\* str.zfill(2) of a string of one or two digits
zfill2(s) == IF Len(s) < 2 THEN <<"0">> \o s ELSE s

\* all sequences over S of length at most n
SeqsUpTo(S, n) == UNION {[1..k -> S] : k \in 0..n}

----------------------------------------------------------------------------
(* JSON values as json.load returns them.  A str carries its characters in *)
(* s, a number its literal in s, a list its elements in l, a dict its      *)
(* items in d, a boolean its Python literal (True, False) in s.            *)

Str(s)   == [type |-> "str",  s |-> s,    l |-> <<>>, d |-> <<>>]
Num(s)   == [type |-> "num",  s |-> s,    l |-> <<>>, d |-> <<>>]
Null     == [type |-> "null", s |-> <<>>, l |-> <<>>, d |-> <<>>]
Bool(b)  == [type |-> "bool", s |-> IF b THEN <<"T", "r", "u", "e">> ELSE <<"F", "a", "l", "s", "e">>,
             l |-> <<>>, d |-> <<>>]
List(l)  == [type |-> "list", s |-> <<>>, l |-> l,    d |-> <<>>]
Dict(d)  == [type |-> "dict", s |-> <<>>, l |-> <<>>, d |-> d]

\* Python truth value of a JSON value: `not v` is ~Truthy(v)
Truthy(v) ==
  CASE v.type = "str"  -> v.s # <<>>
    [] v.type = "num"  -> v.s # <<"0">>
    [] v.type = "null" -> FALSE
    [] v.type = "bool" -> v.s = <<"T", "r", "u", "e">>
    [] v.type = "list" -> v.l # <<>>
    [] v.type = "dict" -> DOMAIN v.d # {}

\* dict.get(key, default) on a dict
get(item, key, default) == IF key \in DOMAIN item.d THEN item.d[key] ELSE default

\* the field names of a source record
K_title        == "u6807u9898"           \* 标题
K_content      == "u6b63u6587"           \* 正文
K_publish_time == "u53d1u5e03u65f6u95f4" \* 发布时间
K_url          == "u9875u9762u7f51u5740" \* 页面网址
K_source       == "u6765u6e90"           \* 来源
K_keyword      == "u5173u952eu8bcd"      \* 关键词
K_summary      == "u7b80u4ecb"           \* 简介
K_image        == "u56feu7247"           \* 图片
K_Sheet1       == "Sheet1"

----------------------------------------------------------------------------
(* NewsConverter (src/convert_news.py) *)

\* 政治 经济 社会 科技 体育 娱乐 国际 军事 教育 健康
NewsConverter_categories ==
  {<<"u653f", "u6cbb">>,
   <<"u7ecf", "u6d4e">>,
   <<"u793e", "u4f1a">>,
   <<"u79d1", "u6280">>,
   <<"u4f53", "u80b2">>,
   <<"u5a31", "u4e50">>,
   <<"u56fd", "u9645">>,
   <<"u519b", "u4e8b">>,
   <<"u6559", "u80b2">>,
   <<"u5065", "u5eb7">>}

\* the keyword table of analyze_category_with_ai, in the dict's iteration order
keyword_category_map ==
  <<
    \* 政治: 政治 政府 政策 领导 党 国家 外交 会议 决策 治理
    [category |-> <<"u653f", "u6cbb">>,
     keywords |-> <<
       <<"u653f", "u6cbb">>,
       <<"u653f", "u5e9c">>,
       <<"u653f", "u7b56">>,
       <<"u9886", "u5bfc">>,
       <<"u515a">>,
       <<"u56fd", "u5bb6">>,
       <<"u5916", "u4ea4">>,
       <<"u4f1a", "u8bae">>,
       <<"u51b3", "u7b56">>,
       <<"u6cbb", "u7406">>
     >>],
    \* 经济: 经济 股市 股指 金融 投资 贸易 GDP 通胀 银行 企业 上市 板块 涨幅 交易
    [category |-> <<"u7ecf", "u6d4e">>,
     keywords |-> <<
       <<"u7ecf", "u6d4e">>,
       <<"u80a1", "u5e02">>,
       <<"u80a1", "u6307">>,
       <<"u91d1", "u878d">>,
       <<"u6295", "u8d44">>,
       <<"u8d38", "u6613">>,
       <<"G", "D", "P">>,
       <<"u901a", "u80c0">>,
       <<"u94f6", "u884c">>,
       <<"u4f01", "u4e1a">>,
       <<"u4e0a", "u5e02">>,
       <<"u677f", "u5757">>,
       <<"u6da8", "u5e45">>,
       <<"u4ea4", "u6613">>
     >>],
    \* 科技: 科技 AI 人工智能 互联网 5G 芯片 创新 技术 数字 智能
    [category |-> <<"u79d1", "u6280">>,
     keywords |-> <<
       <<"u79d1", "u6280">>,
       <<"A", "I">>,
       <<"u4eba", "u5de5", "u667a", "u80fd">>,
       <<"u4e92", "u8054", "u7f51">>,
       <<"5", "G">>,
       <<"u82af", "u7247">>,
       <<"u521b", "u65b0">>,
       <<"u6280", "u672f">>,
       <<"u6570", "u5b57">>,
       <<"u667a", "u80fd">>
     >>],
    \* 社会: 社会 民生 教育 医疗 就业 住房 环境 安全 文化
    [category |-> <<"u793e", "u4f1a">>,
     keywords |-> <<
       <<"u793e", "u4f1a">>,
       <<"u6c11", "u751f">>,
       <<"u6559", "u80b2">>,
       <<"u533b", "u7597">>,
       <<"u5c31", "u4e1a">>,
       <<"u4f4f", "u623f">>,
       <<"u73af", "u5883">>,
       <<"u5b89", "u5168">>,
       <<"u6587", "u5316">>
     >>],
    \* 国际: 国际 美国 欧洲 日本 韩国 俄罗斯 全球 世界
    [category |-> <<"u56fd", "u9645">>,
     keywords |-> <<
       <<"u56fd", "u9645">>,
       <<"u7f8e", "u56fd">>,
       <<"u6b27", "u6d32">>,
       <<"u65e5", "u672c">>,
       <<"u97e9", "u56fd">>,
       <<"u4fc4", "u7f57", "u65af">>,
       <<"u5168", "u7403">>,
       <<"u4e16", "u754c">>
     >>],
    \* 军事: 军事 国防 军队 战争 武器 安全
    [category |-> <<"u519b", "u4e8b">>,
     keywords |-> <<
       <<"u519b", "u4e8b">>,
       <<"u56fd", "u9632">>,
       <<"u519b", "u961f">>,
       <<"u6218", "u4e89">>,
       <<"u6b66", "u5668">>,
       <<"u5b89", "u5168">>
     >>],
    \* 体育: 体育 比赛 运动 足球 篮球 奥运
    [category |-> <<"u4f53", "u80b2">>,
     keywords |-> <<
       <<"u4f53", "u80b2">>,
       <<"u6bd4", "u8d5b">>,
       <<"u8fd0", "u52a8">>,
       <<"u8db3", "u7403">>,
       <<"u7bee", "u7403">>,
       <<"u5965", "u8fd0">>
     >>],
    \* 娱乐: 娱乐 明星 电影 音乐 综艺 演出
    [category |-> <<"u5a31", "u4e50">>,
     keywords |-> <<
       <<"u5a31", "u4e50">>,
       <<"u660e", "u661f">>,
       <<"u7535", "u5f71">>,
       <<"u97f3", "u4e50">>,
       <<"u7efc", "u827a">>,
       <<"u6f14", "u51fa">>
     >>],
    \* 健康: 健康 医疗 疫情 病毒 治疗 药物
    [category |-> <<"u5065", "u5eb7">>,
     keywords |-> <<
       <<"u5065", "u5eb7">>,
       <<"u533b", "u7597">>,
       <<"u75ab", "u60c5">>,
       <<"u75c5", "u6bd2">>,
       <<"u6cbb", "u7597">>,
       <<"u836f", "u7269">>
     >>],
    \* 教育: 教育 学校 大学 招生 考试 学生
    [category |-> <<"u6559", "u80b2">>,
     keywords |-> <<
       <<"u6559", "u80b2">>,
       <<"u5b66", "u6821">>,
       <<"u5927", "u5b66">>,
       <<"u62db", "u751f">>,
       <<"u8003", "u8bd5">>,
       <<"u5b66", "u751f">>
     >>]
  >>

\* content[:500]
ContentPrefixLen == 500

\* the label returned when no keyword matches: 社会
DefaultCategory == <<"u793e", "u4f1a">>

\* score of one category: sum over its keywords of text.count(keyword)
RECURSIVE keyword_score(_, _, _)
keyword_score(text, keywords, k) ==
  IF k > Len(keywords) THEN 0
  ELSE str_count(text, keywords[k]) + keyword_score(text, keywords, k + 1)

\* category_scores: the (category, score) items with score > 0, in table order
RECURSIVE category_scores(_, _)
category_scores(text, c) ==
  IF c > Len(keyword_category_map) THEN <<>>
  ELSE LET score == keyword_score(text, keyword_category_map[c].keywords, 1)
           rest  == category_scores(text, c + 1)
       IN  IF score > 0
           THEN <<[category |-> keyword_category_map[c].category, score |-> score]>> \o rest
           ELSE rest

\* a maximum that keeps the last of equal scores
RECURSIVE max_by_score_last(_, _, _)
max_by_score_last(items, i, best) ==
  IF i > Len(items) THEN best
  ELSE IF items[i].score >= best.score THEN max_by_score_last(items, i + 1, items[i])
  ELSE max_by_score_last(items, i + 1, best)

\* max(items, key=score): the first item no later item beats
RECURSIVE max_by_score(_, _, _)
max_by_score(items, i, best) ==
  IF i > Len(items) THEN best
  ELSE IF items[i].score > best.score THEN max_by_score(items, i + 1, items[i])
  ELSE max_by_score(items, i + 1, best)

analyze_category_with_ai(title, content) ==
  LET text   == title \o <<" ">> \o Prefix(content, ContentPrefixLen)
      scores == category_scores(text, 1)
  IN  IF scores # <<>>
      THEN max_by_score(scores, 2, scores[1]).category
      ELSE DefaultCategory

\* generate_summary's default max_length
DefaultMaxLength == 200

\* re.sub(r'\s+', '', s)
remove_whitespace(s) == SelectSeq(s, LAMBDA c : c \notin Whitespace)

\* position of the first 】 (u3011) at or after p, 0 when there is none
RECURSIVE next_close(_, _)
next_close(s, p) ==
  IF p > Len(s) THEN 0
  ELSE IF s[p] = "u3011" THEN p
  ELSE next_close(s, p + 1)

\* re.sub(r'【.*?】', '', s): leftmost 【, shortest run up to a 】
RECURSIVE remove_brackets(_)
remove_brackets(s) ==
  IF s = <<>> THEN <<>>
  ELSE IF Head(s) = "u3010" /\ next_close(s, 2) > 0
       THEN remove_brackets(Suffix(s, next_close(s, 2)))
       ELSE <<Head(s)>> \o remove_brackets(Tail(s))

\* the characters re.split(r'[。！？]') splits at
SentenceEnd == {"u3002", "uff01", "uff1f"}

\* re.split(r'[。！？]', s): the pieces between terminators, empty ones kept
RECURSIVE split_sentences(_, _)
split_sentences(s, cur) ==
  IF s = <<>> THEN <<cur>>
  ELSE IF Head(s) \in SentenceEnd
       THEN <<cur>> \o split_sentences(Tail(s), <<>>)
       ELSE split_sentences(Tail(s), Append(cur, Head(s)))

\* the accumulation loop of generate_summary
RECURSIVE accumulate(_, _, _, _)
accumulate(sentences, i, summary, max_length) ==
  IF i > Len(sentences) THEN summary
  ELSE IF Len(summary \o sentences[i]) <= max_length /\ Strip(sentences[i]) # <<>>
       THEN accumulate(sentences, i + 1, summary \o sentences[i] \o <<"u3002">>, max_length)
       ELSE summary

generate_summary(content, max_length) ==
  LET clean_content == remove_brackets(remove_whitespace(content))
      sentences     == split_sentences(clean_content, <<>>)
      summary       == accumulate(sentences, 1, <<>>, max_length)
  IN  IF summary # <<>>
      THEN Strip(summary)
      ELSE Prefix(content, max_length) \o <<".", ".", ".">>

\* are the k characters of s from p on digits
DigitsAt(s, p, k) ==
  /\ p + k - 1 <= Len(s)
  /\ \A i \in p..(p + k - 1) : s[i] \in Digits

\* \d{1,2} followed by the literal lit: the length matched at p, 0 when none
digits12_then(s, p, lit) ==
  IF DigitsAt(s, p, 2) /\ p + 2 <= Len(s) /\ s[p + 2] = lit THEN 2
  ELSE IF DigitsAt(s, p, 1) /\ p + 1 <= Len(s) /\ s[p + 1] = lit THEN 1
  ELSE 0

\* (\d{4})年(\d{1,2})月(\d{1,2})日(\d{1,2}):(\d{1,2}) matched at p
loose_match_at(s, p) ==
  IF ~(DigitsAt(s, p, 4) /\ p + 4 <= Len(s) /\ s[p + 4] = "u5e74")
  THEN [ok |-> FALSE]
  ELSE
    LET mp == p + 5
        mk == digits12_then(s, mp, "u6708")
    IN  IF mk = 0 THEN [ok |-> FALSE]
        ELSE
          LET dp == mp + mk + 1
              dk == digits12_then(s, dp, "u65e5")
          IN  IF dk = 0 THEN [ok |-> FALSE]
              ELSE
                LET hp == dp + dk + 1
                    hk == digits12_then(s, hp, ":")
                IN  IF hk = 0 THEN [ok |-> FALSE]
                    ELSE
                      LET np == hp + hk + 1
                          nk == IF DigitsAt(s, np, 2) THEN 2
                                ELSE IF DigitsAt(s, np, 1) THEN 1 ELSE 0
                      IN  IF nk = 0 THEN [ok |-> FALSE]
                          ELSE [ok     |-> TRUE,
                                year   |-> SubSeq(s, p, p + 3),
                                month  |-> SubSeq(s, mp, mp + mk - 1),
                                day    |-> SubSeq(s, dp, dp + dk - 1),
                                hour   |-> SubSeq(s, hp, hp + hk - 1),
                                minute |-> SubSeq(s, np, np + nk - 1)]

\* re.search of that pattern: the leftmost match
RECURSIVE loose_search(_, _)
loose_search(s, p) ==
  IF p > Len(s) THEN [ok |-> FALSE]
  ELSE IF loose_match_at(s, p).ok THEN loose_match_at(s, p)
  ELSE loose_search(s, p + 1)

\* NewsConverter.parse_datetime; now is datetime.now() formatted.  A value
\* that is no str raises inside the try and yields now.
NewsConverter_parse_datetime(date_string, now) ==
  IF date_string.type # "str" THEN now
  ELSE
    LET s == date_string.s
    IN  IF Contains(s, <<"u5e74">>) /\ Contains(s, <<"u6708">>) /\ Contains(s, <<"u65e5">>)
        THEN LET date_part == loose_search(s, 1)
             IN  IF date_part.ok
                 THEN date_part.year \o <<"-">> \o zfill2(date_part.month) \o <<"-">>
                        \o zfill2(date_part.day) \o <<" ">> \o zfill2(date_part.hour)
                        \o <<":">> \o zfill2(date_part.minute) \o <<":", "0", "0">>
                 ELSE now
        ELSE now

----------------------------------------------------------------------------
(* NewsDataConverter (src/scripts/convert_localization_to_news.py) *)

\* 政治 经济 科技 体育 娱乐 社会 国际 军事 教育 健康 环境 文化 旅游 财经
NewsDataConverter_categories ==
  {<<"u653f", "u6cbb">>,
   <<"u7ecf", "u6d4e">>,
   <<"u79d1", "u6280">>,
   <<"u4f53", "u80b2">>,
   <<"u5a31", "u4e50">>,
   <<"u793e", "u4f1a">>,
   <<"u56fd", "u9645">>,
   <<"u519b", "u4e8b">>,
   <<"u6559", "u80b2">>,
   <<"u5065", "u5eb7">>,
   <<"u73af", "u5883">>,
   <<"u6587", "u5316">>,
   <<"u65c5", "u6e38">>,
   <<"u8d22", "u7ecf">>}

\* "document.getElementById"
ScriptMarker ==
  <<"d", "o", "c", "u", "m", "e", "n", "t", ".", "g", "e", "t", "E", "l", "e", "m", "e",
    "n", "t", "B", "y", "I", "d">>

\* \d{4}年\d{2}月\d{2}日\d{2}:\d{2} matched at p (16 characters)
short_match_at(s, p) ==
  /\ p + 15 <= Len(s)
  /\ DigitsAt(s, p, 4)      /\ s[p + 4] = "u5e74"
  /\ DigitsAt(s, p + 5, 2)  /\ s[p + 7] = "u6708"
  /\ DigitsAt(s, p + 8, 2)  /\ s[p + 10] = "u65e5"
  /\ DigitsAt(s, p + 11, 2) /\ s[p + 13] = ":"
  /\ DigitsAt(s, p + 14, 2)

\* \d{4}年\d{2}月\d{2}日\d{2}:\d{2}:\d{2} matched at p (19 characters)
full_match_at(s, p) ==
  /\ short_match_at(s, p)
  /\ p + 18 <= Len(s)
  /\ s[p + 16] = ":"
  /\ DigitsAt(s, p + 17, 2)

\* re.search of the short pattern: position of the leftmost match, 0 when none
RECURSIVE short_search(_, _)
short_search(s, p) ==
  IF p > Len(s) THEN 0
  ELSE IF short_match_at(s, p) THEN p
  ELSE short_search(s, p + 1)

IsLeap(y) == (y % 4 = 0 /\ y % 100 # 0) \/ y % 400 = 0

DaysInMonth(y, m) ==
  IF m = 2 THEN (IF IsLeap(y) THEN 29 ELSE 28)
  ELSE IF m \in {4, 6, 9, 11} THEN 30 ELSE 31

\* datetime.strptime(s, '%Y年%m月%d日%H:%M:%S') (with_seconds) or
\* datetime.strptime(s, '%Y年%m月%d日%H:%M'), called on a string the matching
\* re.match accepted: ValueError when data remains after the pattern, when a
\* field is out of the directive's range, or when the date does not exist.
strptime(s, with_seconds) ==
  LET n      == IF with_seconds THEN 19 ELSE 16
      year   == IntOf(SubSeq(s, 1, 4))
      month  == IntOf(SubSeq(s, 6, 7))
      day    == IntOf(SubSeq(s, 9, 10))
      hour   == IntOf(SubSeq(s, 12, 13))
      minute == IntOf(SubSeq(s, 15, 16))
      second == IF with_seconds THEN IntOf(SubSeq(s, 18, 19)) ELSE 0
  IN  IF /\ Len(s) = n
         /\ year >= 1
         /\ month \in 1..12
         /\ day \in 1..DaysInMonth(year, month)
         /\ hour \in 0..23
         /\ minute \in 0..59
         /\ second \in 0..59
      THEN [ok |-> TRUE, year |-> year, month |-> month, day |-> day,
            hour |-> hour, minute |-> minute, second |-> second]
      ELSE [ok |-> FALSE]

\* a number in n decimal digits, zero padded
RECURSIVE Pad(_, _)
Pad(v, n) == IF n = 0 THEN <<>> ELSE Pad(v \div 10, n - 1) \o <<DigitChar(v % 10)>>

\* datetime.strftime('%Y-%m-%d %H:%M:%S'), for a year of four digits
strftime(t) ==
  Pad(t.year, 4) \o <<"-">> \o Pad(t.month, 2) \o <<"-">> \o Pad(t.day, 2) \o <<" ">>
    \o Pad(t.hour, 2) \o <<":">> \o Pad(t.minute, 2) \o <<":">> \o Pad(t.second, 2)

\* NewsDataConverter.parse_datetime; fallback is datetime.now() minus the
\* random days, formatted.  Every exception inside the try yields fallback.
NewsDataConverter_parse_datetime(date_str, fallback) ==
  IF date_str.type # "str" THEN fallback
  ELSE
    LET s0 == date_str.s
        at == IF Contains(s0, ScriptMarker) THEN short_search(s0, 1) ELSE 0
        s  == IF at > 0 THEN SubSeq(s0, at, at + 15) ELSE s0
    IN  IF full_match_at(s, 1)
        THEN (IF strptime(s, TRUE).ok THEN strftime(strptime(s, TRUE)) ELSE fallback)
        ELSE IF short_match_at(s, 1)
        THEN (IF strptime(s, FALSE).ok THEN strftime(strptime(s, FALSE)) ELSE fallback)
        ELSE fallback

\* re.sub(r'\r\n|\r|\n', '\n', s)
RECURSIVE normalize_newlines(_)
normalize_newlines(s) ==
  IF s = <<>> THEN <<>>
  ELSE IF Len(s) >= 2 /\ s[1] = "CR" /\ s[2] = "LF"
       THEN <<"LF">> \o normalize_newlines(Suffix(s, 2))
  ELSE IF Head(s) \in {"CR", "LF"} THEN <<"LF">> \o normalize_newlines(Tail(s))
  ELSE <<Head(s)>> \o normalize_newlines(Tail(s))

\* re.sub(r'\n+', '\n', s)
RECURSIVE collapse_newlines(_)
collapse_newlines(s) ==
  IF s = <<>> THEN <<>>
  ELSE IF Len(s) >= 2 /\ s[1] = "LF" /\ s[2] = "LF" THEN collapse_newlines(Tail(s))
  ELSE <<Head(s)>> \o collapse_newlines(Tail(s))

\* clean_text without its final strip
clean_text_unstripped(text) ==
  IF ~Truthy(text) THEN [exc |-> "none", val |-> <<>>]
  ELSE IF text.type # "str" THEN [exc |-> "TypeError", val |-> <<>>]
  ELSE [exc |-> "none", val |-> collapse_newlines(normalize_newlines(text.s))]

\* clean_text: "" for a falsy value, TypeError (re.sub) for a truthy value
\* that is no str
clean_text(text) ==
  IF ~Truthy(text) THEN [exc |-> "none", val |-> <<>>]
  ELSE IF text.type # "str" THEN [exc |-> "TypeError", val |-> <<>>]
  ELSE [exc |-> "none", val |-> Strip(collapse_newlines(normalize_newlines(text.s)))]

----------------------------------------------------------------------------
(* The per-record converters.  A call returns [exc, msg, val]: exc is      *)
(* "none" and val the record, or exc names the exception raised.  Of the   *)
(* record, the fields kept are those computed from the source record; the  *)
(* others are constants, random draws or clock readings (source, link,     *)
(* guid, author, tags, the four counts, hotness_score, status, flags).     *)

Returned(v)     == [exc |-> "none", msg |-> <<>>, val |-> v]
Raised(e, m)    == [exc |-> e, msg |-> m, val |-> <<>>]

\* "正文为空，跳过此条新闻"
EmptyBodyMessage ==
  <<"u6b63", "u6587", "u4e3a", "u7a7a", "uff0c", "u8df3", "u8fc7", "u6b64", "u6761",
    "u65b0", "u95fb">>

\* "正文为空"
EmptyBodyMark == <<"u6b63", "u6587", "u4e3a", "u7a7a">>

\* the body test without the strip: only a falsy body is empty
is_empty_body_unstripped(content) == ~Truthy(content)

\* `not content or content.strip() == ""`, for a content that is a str or falsy
is_empty_body(content) == ~Truthy(content) \/ Strip(content.s) = <<>>

\* NewsConverter.convert_news_item
NewsConverter_convert_news_item(source_item, now) ==
  IF source_item.type # "dict" THEN Raised("AttributeError", <<>>)   \* source_item.get
  ELSE
    LET title        == get(source_item, K_title, Str(<<>>))
        content      == get(source_item, K_content, Str(<<>>))
        url          == get(source_item, K_url, Str(<<>>))
        publish_time == get(source_item, K_publish_time, Str(<<>>))
    IN  IF Truthy(content) /\ content.type # "str"
          THEN Raised("AttributeError", <<>>)                        \* content.strip
        ELSE IF is_empty_body(content)
          THEN Raised("ValueError", EmptyBodyMessage)
        ELSE IF title.type # "str"
          THEN Raised("TypeError", <<>>)                             \* title + " "
        ELSE IF url.type # "str"
          THEN Raised("TypeError", <<>>)                             \* url + title
        ELSE
          LET category == analyze_category_with_ai(title.s, content.s)
              summary  == generate_summary(content.s, DefaultMaxLength)
          IN  Returned([title        |-> title.s,
                        content      |-> content.s,
                        summary      |-> summary,
                        description  |-> summary,
                        category     |-> category,
                        published_at |-> NewsConverter_parse_datetime(publish_time, now)])

\* the keyword taken as the category without the membership test
choose_category_unchecked(keyword, choice) == keyword.s

\* keyword if keyword in self.categories else random.choice(self.categories)
choose_category(keyword, choice) ==
  IF keyword.type = "str" /\ keyword.s \in NewsDataConverter_categories
  THEN keyword.s
  ELSE choice

\* NewsDataConverter.convert_news_item; fallback and choice are the draws of
\* parse_datetime and random.choice
NewsDataConverter_convert_news_item(item, fallback, choice) ==
  IF item.type # "dict" THEN Raised("AttributeError", <<>>)          \* item.get
  ELSE
    LET keyword        == get(item, K_keyword, Str(<<>>))
        title          == clean_text(get(item, K_title, Str(<<>>)))
        summary        == clean_text(get(item, K_summary, Str(<<>>)))
        content        == clean_text(get(item, K_content, Str(<<>>)))
        published_time == get(item, K_publish_time, Str(<<>>))
    IN  IF title.exc # "none" \/ content.exc # "none" \/ summary.exc # "none"
          THEN Raised("TypeError", <<>>)                             \* re.sub in clean_text
        ELSE Returned([title        |-> title.val,
                       content      |-> content.val,
                       summary      |-> summary.val,
                       description  |-> summary.val,
                       category     |-> choose_category(keyword, choice),
                       published_at |-> NewsDataConverter_parse_datetime(published_time, fallback)])

----------------------------------------------------------------------------
(* The inputs of a batch run *)

\* "2025年07月01日19:01"
SomePublishTime ==
  Str(<<"2", "0", "2", "5", "u5e74", "0", "7", "u6708", "0", "1", "u65e5", "1", "9", ":", "0", "1">>)

\* a source record with title t, publish time pt, keyword 体育 and, when
\* has_body, body b
Record(t, pt, has_body, b) ==
  Dict([k \in {K_title, K_publish_time, K_keyword} \cup (IF has_body THEN {K_content} ELSE {})
          |-> CASE k = K_title        -> t
                [] k = K_publish_time -> pt
                [] k = K_keyword      -> Str(<<"u4f53", "u80b2">>)
                [] k = K_content      -> b])

\* the elements an input collection is made of
SourceItems ==
  { \* body 体育。b, publish time "x"
    Record(Str(<<"a">>), Str(<<"x">>), TRUE, Str(<<"u4f53", "u80b2", "u3002", "b">>)),
    \* body cd, no keyword
    Dict([k \in {K_title, K_content, K_publish_time} |->
            CASE k = K_title -> Str(<<"c">>)
              [] k = K_content -> Str(<<"c", "d">>)
              [] k = K_publish_time -> SomePublishTime]),
    \* body missing
    Record(Str(<<"e">>), SomePublishTime, FALSE, Null),
    \* body ""
    Record(Str(<<"f">>), SomePublishTime, TRUE, Str(<<>>)),
    \* body " \n"
    Record(Str(<<"g">>), SomePublishTime, TRUE, Str(<<" ", "LF">>)),
    \* body null
    Record(Str(<<"h">>), SomePublishTime, TRUE, Null),
    \* body 5
    Record(Str(<<"i">>), SomePublishTime, TRUE, Num(<<"5">>)),
    \* title 7
    Record(Num(<<"7">>), SomePublishTime, TRUE, Str(<<"j">>)),
    \* body " ", no title
    Dict([k \in {K_content, K_publish_time, K_keyword} |->
            CASE k = K_content -> Str(<<" ">>)
              [] k = K_publish_time -> SomePublishTime
              [] k = K_keyword -> Str(<<"u4f53", "u80b2">>)]),
    \* "x", 5, null, [1]
    Str(<<"x">>),
    Num(<<"5">>),
    Null,
    List(<<Num(<<"1">>)>>) }

Collections == SeqsUpTo(SourceItems, MaxItems)

\* "Sheet1" as a str
Sheet1Str == <<"S", "h", "e", "e", "t", "1">>

\* the documents json.load can return
Documents ==
  {List(l) : l \in Collections}
    \cup {Dict([k \in {K_Sheet1} |-> List(l)]) : l \in Collections}
    \cup {v \in SourceItems : v.type = "dict"}
    \cup { Dict(<<>>),
           Dict([k \in {K_Sheet1} |-> Num(<<"5">>)]),
           Dict([k \in {K_Sheet1} |-> Str(<<"x">>)]),
           Dict([k \in {"Sheet2"} |-> List(<<>>)]),
           List(<<Str(Sheet1Str)>>),
           Str(<<"x">>), Str(Sheet1Str), Num(<<"5">>), Null }

\* the input file: absent, not JSON, or holding a document
Inputs ==
  {[load |-> "missing", data |-> Null], [load |-> "invalid", data |-> Null]}
    \cup {[load |-> "ok", data |-> v] : v \in Documents}

\* formatted readings of the clock (datetime.now(), or now minus 1..30 days)
Clock ==
  { <<"2", "0", "2", "6", "-", "1", "1", "-", "0", "6", " ", "1", "4", ":", "0", "4", ":", "3", "8">>,
    <<"2", "0", "2", "6", "-", "1", "0", "-", "0", "7", " ", "2", "3", ":", "5", "9", ":", "5", "9">> }

NoOutput == [written |-> FALSE, doc |-> <<>>]
NoCall   == [fn |-> "none"]
NoReturn == <<>>

\* list.insert(0, item): the item goes in front of the list
append_at_front(list, item) == <<item>> \o list

\* list.append(item): converted_data.append(converted_item) and
\* news_items.append(news_item)
append(list, item) == Append(list, item)

----------------------------------------------------------------------------
(* NewsConverter.convert_file *)

\* open + json.load + the shape test: FileNotFoundError, JSONDecodeError and the
\* ValueError of a document that is neither dict nor list all reach the outer
\* handlers, which print and return
convert_file_load ==
  /\ variant = "convert_file"
  /\ pc = "start"
  /\ IF input.load = "ok" /\ input.data.type \in {"dict", "list"}
     THEN /\ source_data' = (IF input.data.type = "dict" THEN <<input.data>> ELSE input.data.l)
          /\ pc' = "loop"
     ELSE /\ source_data' = source_data
          /\ pc' = "done"
  /\ UNCHANGED <<variant, input, idx, converted_data, skipped_count, passed, output,
                 raised, call, ret>>

\* is item.get available in the except clause
handler_can_name(item) == item.type = "dict"

\* one iteration of the for loop, with its except clauses
convert_file_item ==
  /\ variant = "convert_file"
  /\ pc = "loop"
  /\ idx <= Len(source_data)
  /\ \E now \in Clock :
       LET item == source_data[idx]
           r    == NewsConverter_convert_news_item(item, now)
       IN  /\ passed' = passed \cup {idx}
           /\ IF r.exc = "none"
              THEN /\ converted_data' = append(converted_data, r.val)
                   /\ UNCHANGED skipped_count
                   /\ idx' = idx + 1
                   /\ pc' = "loop"
              ELSE IF r.exc = "ValueError"
              THEN \* item.get("标题", ...) runs only in the empty-body branch
                   /\ UNCHANGED converted_data
                   /\ IF Contains(r.msg, EmptyBodyMark)
                      THEN IF handler_can_name(item)
                           THEN /\ skipped_count' = skipped_count + 1
                                /\ idx' = idx + 1
                                /\ pc' = "loop"
                           ELSE /\ UNCHANGED <<skipped_count, idx>>
                                /\ pc' = "done"
                      ELSE /\ UNCHANGED skipped_count
                           /\ idx' = idx + 1
                           /\ pc' = "loop"
              ELSE \* except Exception: title = item.get(...) raises on a non-dict
                   \* item, and the outer except Exception ends the run
                   /\ UNCHANGED <<converted_data, skipped_count>>
                   /\ IF handler_can_name(item)
                      THEN /\ idx' = idx + 1
                           /\ pc' = "loop"
                      ELSE /\ UNCHANGED idx
                           /\ pc' = "done"
  /\ UNCHANGED <<variant, input, source_data, output, raised, call, ret>>

\* json.dump(converted_data) into target_file, then the report
convert_file_write ==
  /\ variant = "convert_file"
  /\ pc = "loop"
  /\ idx > Len(source_data)
  /\ output' = [written |-> TRUE, doc |-> converted_data]
  /\ pc' = "done"
  /\ UNCHANGED <<variant, input, source_data, idx, converted_data, skipped_count, passed,
                 raised, call, ret>>

----------------------------------------------------------------------------
(* NewsDataConverter.convert_all *)

\* `"Sheet1" in data and isinstance(data["Sheet1"], list)`: "loop" when true,
\* "skip" when false, "TypeError" when the test itself raises
sheet_test(data) ==
  CASE data.type = "dict" ->
         IF K_Sheet1 \in DOMAIN data.d /\ data.d[K_Sheet1].type = "list" THEN "loop" ELSE "skip"
    [] data.type = "list" ->
         IF \E i \in DOMAIN data.l : data.l[i] = Str(Sheet1Str) THEN "TypeError" ELSE "skip"
    [] data.type = "str" ->
         IF Contains(data.s, Sheet1Str) THEN "TypeError" ELSE "skip"
    [] OTHER -> "TypeError"

\* open + json.load + the Sheet1 test; every exception is printed and re-raised
convert_all_load ==
  /\ variant = "convert_all"
  /\ pc = "start"
  /\ IF input.load = "ok" /\ sheet_test(input.data) # "TypeError"
     THEN /\ source_data' = (IF sheet_test(input.data) = "loop"
                             THEN input.data.d[K_Sheet1].l ELSE <<>>)
          /\ pc' = "loop"
          /\ UNCHANGED raised
     ELSE /\ source_data' = source_data
          /\ pc' = "done"
          /\ raised' = TRUE
  /\ UNCHANGED <<variant, input, idx, converted_data, skipped_count, passed, output,
                 call, ret>>

\* one iteration of the for loop: except Exception prints and continues
convert_all_item ==
  /\ variant = "convert_all"
  /\ pc = "loop"
  /\ idx <= Len(source_data)
  /\ \E fallback \in Clock, choice \in NewsDataConverter_categories :
       LET r == NewsDataConverter_convert_news_item(source_data[idx], fallback, choice)
       IN  /\ passed' = passed \cup {idx}
           /\ converted_data' = (IF r.exc = "none" THEN append(converted_data, r.val)
                                 ELSE converted_data)
  /\ idx' = idx + 1
  /\ UNCHANGED <<variant, pc, input, source_data, skipped_count, output, raised, call, ret>>

\* does the report's len(data.get('Sheet1', [])) raise after the file is written
report_raises(data) ==
  \/ data.type # "dict"
  \/ /\ K_Sheet1 \in DOMAIN data.d
     /\ data.d[K_Sheet1].type \in {"num", "null"}

\* json.dump of the envelope into output_file, then the report
convert_all_write ==
  /\ variant = "convert_all"
  /\ pc = "loop"
  /\ idx > Len(source_data)
  /\ output' = [written |-> TRUE,
                doc |-> [news_items |-> converted_data, total_count |-> Len(converted_data)]]
  /\ raised' = report_raises(input.data)
  /\ pc' = "done"
  /\ UNCHANGED <<variant, input, source_data, idx, converted_data, skipped_count, passed,
                 call, ret>>

----------------------------------------------------------------------------
(* The batch runs *)

Init ==
  /\ variant \in {"convert_file", "convert_all"}
  /\ pc = "start"
  /\ input \in Inputs
  /\ source_data = <<>>
  /\ idx = 1
  /\ converted_data = <<>>
  /\ skipped_count = 0
  /\ passed = {}
  /\ output = NoOutput
  /\ raised = FALSE
  /\ call = NoCall
  /\ ret = NoReturn

Next ==
  \/ convert_file_load
  \/ convert_file_item
  \/ convert_file_write
  \/ convert_all_load
  \/ convert_all_item
  \/ convert_all_write

Spec == Init /\ [][Next]_vars

----------------------------------------------------------------------------
(* Calls of single functions: the arguments are in call, the value         *)
(* returned in ret; the batch state stays idle.                            *)

batch_vars == <<input, source_data, idx, converted_data, skipped_count, passed, output, raised>>

BatchIdle ==
  /\ input = [load |-> "missing", data |-> Null]
  /\ source_data = <<>>
  /\ idx = 1
  /\ converted_data = <<>>
  /\ skipped_count = 0
  /\ passed = {}
  /\ output = NoOutput
  /\ raised = FALSE

(* parse_datetime, both classes *)

\* 年 月 日
Nian == <<"u5e74">>
Yue  == <<"u6708">>
Ri   == <<"u65e5">>

\* the publish-time strings handed to parse_datetime: a date-shaped core, with
\* fields in and out of range, alone or inside other text, and "garbage"
DateStrings ==
  { pre \o y \o Nian \o mo \o Yue \o d \o Ri \o h \o <<":">> \o mi \o sec \o suf :
      pre \in {<<>>, <<"x">>, ScriptMarker \o <<"(", ")">>},
      y   \in {<<"2", "0", "2", "5">>, <<"2", "0", "2", "4">>},
      mo  \in {<<"0", "7">>, <<"0", "2">>, <<"1", "3">>, <<"6">>},
      d   \in {<<"0", "1">>, <<"3", "0">>, <<"9">>},
      h   \in {<<"1", "9">>, <<"9", "9">>},
      mi  \in {<<"0", "1">>, <<"5">>},
      sec \in {<<>>, <<":", "2", "7">>, <<":", "6", "1">>},
      suf \in {<<>>, <<"x">>} }
    \cup {<<"g", "a", "r", "b", "a", "g", "e">>}

InitDate ==
  /\ variant = "parse_datetime"
  /\ pc = "call"
  /\ call \in {[fn |-> f, date_str |-> s] :
                 f \in {"NewsConverter", "NewsDataConverter"}, s \in DateStrings}
  /\ ret = NoReturn
  /\ BatchIdle

NewsConverter_parse_datetime_call ==
  /\ variant = "parse_datetime"
  /\ pc = "call"
  /\ call.fn = "NewsConverter"
  /\ \E now \in Clock : ret' = NewsConverter_parse_datetime(Str(call.date_str), now)
  /\ pc' = "return"
  /\ UNCHANGED <<variant, call, batch_vars>>

NewsDataConverter_parse_datetime_call ==
  /\ variant = "parse_datetime"
  /\ pc = "call"
  /\ call.fn = "NewsDataConverter"
  /\ \E fallback \in Clock : ret' = NewsDataConverter_parse_datetime(Str(call.date_str), fallback)
  /\ pc' = "return"
  /\ UNCHANGED <<variant, call, batch_vars>>

NextDate ==
  \/ NewsConverter_parse_datetime_call
  \/ NewsDataConverter_parse_datetime_call

SpecDate == InitDate /\ [][NextDate]_vars

(* generate_summary *)

\* the characters of the body texts: a letter, a space, 。 ！ 【 】
SummaryAlphabet == {"a", " ", "u3002", "uff01", "u3010", "u3011"}

InitSummary ==
  /\ variant = "generate_summary"
  /\ pc = "call"
  /\ call \in {[content |-> c, max_length |-> m] :
                 c \in SeqsUpTo(SummaryAlphabet, MaxContentLen), m \in 1..MaxBudget}
  /\ ret = NoReturn
  /\ BatchIdle

generate_summary_call ==
  /\ variant = "generate_summary"
  /\ pc = "call"
  /\ ret' = generate_summary(call.content, call.max_length)
  /\ pc' = "return"
  /\ UNCHANGED <<variant, call, batch_vars>>

NextSummary == generate_summary_call

SpecSummary == InitSummary /\ [][NextSummary]_vars

(* analyze_category_with_ai *)

\* the characters of the texts: 教 育 体 and a letter (keywords 教育, 体育)
CategoryAlphabet == {"u6559", "u80b2", "u4f53", "x"}

\* n letters
Padding(n) == [i \in 1..n |-> "x"]

\* bodies with a keyword ending at, and one character past, content[:500]
LongContents ==
  { Padding(n) \o kw \o rest :
      n \in {ContentPrefixLen - 2, ContentPrefixLen - 1},
      kw \in {<<"u4f53", "u80b2">>, <<"u6559", "u80b2">>},
      rest \in {<<>>, <<"u4f53", "u80b2">>} }

InitCategory ==
  /\ variant = "analyze_category_with_ai"
  /\ pc = "call"
  /\ call \in {[title |-> t, content |-> c] :
                 t \in SeqsUpTo(CategoryAlphabet, MaxTextLen),
                 c \in SeqsUpTo(CategoryAlphabet, MaxTextLen) \cup LongContents}
  /\ ret = NoReturn
  /\ BatchIdle

analyze_category_with_ai_call ==
  /\ variant = "analyze_category_with_ai"
  /\ pc = "call"
  /\ ret' = analyze_category_with_ai(call.title, call.content)
  /\ pc' = "return"
  /\ UNCHANGED <<variant, call, batch_vars>>

NextCategory == analyze_category_with_ai_call

SpecCategory == InitCategory /\ [][NextCategory]_vars

----------------------------------------------------------------------------
(* NewsDataConverter.generate_sql_inserts.  The script is a sequence of    *)
(* writes, each a sequence of tokens: a quote, a parenthesis, a comma, a   *)
(* semicolon and every character of a value is a token of its own, a       *)
(* keyword or column name is one token, and a line feed is "LF"; the       *)
(* indentation is left out.                                                *)

\* str.lower() of the literals True and False
lower(s) == IF s = <<"T", "r", "u", "e">> THEN <<"true">> ELSE <<"false">>

\* str(value).replace("'", "''")
RECURSIVE replace_quotes(_)
replace_quotes(s) ==
  IF s = <<>> THEN <<>>
  ELSE (IF Head(s) = "'" THEN <<"'", "'">> ELSE <<Head(s)>>) \o replace_quotes(Tail(s))

\* escape_sql with the replace left out
escape_sql_unescaped(value) ==
  IF value.type = "null" THEN <<"NULL">>
  ELSE IF value.type = "bool" THEN lower(value.s)
  ELSE IF value.type = "num" THEN value.s
  ELSE <<"'">> \o value.s \o <<"'">>

\* escape_sql, for a value that is None, a bool, a number or a str
escape_sql(value) ==
  IF value.type = "null" THEN <<"NULL">>
  ELSE IF value.type = "bool" THEN lower(value.s)
  ELSE IF value.type = "num" THEN value.s
  ELSE <<"'">> \o replace_quotes(value.s) \o <<"'">>

\* the columns of the INSERT statement, in order
Columns ==
  <<"title", "content", "summary", "description", "source", "category", "published_at",
    "created_by", "is_active", "source_type", "rss_source_id", "link", "guid",
    "author", "image_url", "tags", "language", "view_count", "like_count",
    "comment_count", "share_count", "hotness_score", "status", "is_processed",
    "created_at", "updated_at">>

\* the columns rendered with escape_sql; the counts and the score are
\* interpolated as they are
Escaped ==
  {"title", "content", "summary", "description", "source", "category", "published_at",
   "created_by", "is_active", "source_type", "rss_source_id", "link", "guid",
   "author", "image_url", "tags", "language", "status", "is_processed"}

\* the items of a sequence of token sequences, separated by a comma and a line feed
RECURSIVE join_lines(_)
join_lines(parts) ==
  IF parts = <<>> THEN <<>>
  ELSE IF Len(parts) = 1 THEN parts[1]
  ELSE parts[1] \o <<",", "LF">> \o join_lines(Tail(parts))

\* the value rendered for column c of item
render(item, c) ==
  IF c \in {"created_at", "updated_at"} THEN <<"NOW", "(", ")">>
  ELSE IF c \in Escaped THEN escape_sql(item[c])
  ELSE item[c].s

\* the f-string of one record
insert_statement(item) ==
  <<"INSERT INTO news", "(", "LF">>
    \o join_lines([i \in DOMAIN Columns |-> <<Columns[i]>>])
    \o <<"LF", ")", "VALUES", "(", "LF">>
    \o join_lines([i \in DOMAIN Columns |-> render(item, Columns[i])])
    \o <<"LF", ")", ";", "LF", "LF">>

\* a record of the JSON file with the given title and image_url, as
\* convert_all writes it
NewsItem(title, image_url) ==
  [title |-> title, content |-> Str(<<"b", "'", "c">>), summary |-> Str(<<>>),
   description |-> Str(<<>>), source |-> Str(<<"s">>),
   category |-> Str(<<"u4f53", "u80b2">>),
   published_at |-> Str(<<"2", "0", "2", "5", "-", "0", "7", "-", "0", "1", " ",
                          "1", "9", ":", "0", "1", ":", "0", "0">>),
   created_by |-> Null, is_active |-> Bool(TRUE), source_type |-> Str(<<"m">>),
   rss_source_id |-> Null, link |-> Str(<<>>), guid |-> Str(<<"0", "f">>),
   author |-> Str(<<>>), image_url |-> image_url,
   tags |-> Str(<<"[", "]">>), language |-> Str(<<"z", "h">>),
   view_count |-> Num(<<"1", "0", "0">>), like_count |-> Num(<<"1", "0">>),
   comment_count |-> Num(<<"5">>), share_count |-> Num(<<"0">>),
   hotness_score |-> Num(<<"4", "5", ".", "0">>),
   status |-> Str(<<"p">>), is_processed |-> Bool(TRUE)]

\* the characters of the titles: a letter, a quote, a closing parenthesis
TitleAlphabet == {"a", "'", ")"}

\* the records the JSON file can hold
NewsItems ==
  { NewsItem(Str(t), u) :
      t \in SeqsUpTo(TitleAlphabet, MaxTitleLen),
      u \in {Null, Str(<<"'", ";">>), Bool(FALSE)} }

InitSql ==
  /\ variant = "generate_sql_inserts"
  /\ pc = "start"
  /\ call \in {[news_items |-> l] : l \in SeqsUpTo(NewsItems, MaxSqlItems)}
  /\ ret = NoReturn
  /\ input = [load |-> "ok", data |-> Null]
  /\ source_data = <<>>
  /\ idx = 1
  /\ converted_data = <<>>
  /\ skipped_count = 0
  /\ passed = {}
  /\ output = NoOutput
  /\ raised = FALSE

sql_vars == <<variant, call, ret, input, source_data, converted_data, skipped_count, passed,
              raised>>

\* open(sql_file, 'w') and the three header writes
generate_sql_inserts_begin ==
  /\ variant = "generate_sql_inserts"
  /\ pc = "start"
  /\ output' = [written |-> TRUE,
                doc |-> << <<"--", "LF">>, <<"--", "LF", "LF">>, <<"BEGIN", ";", "LF", "LF">> >>]
  /\ pc' = "loop"
  /\ UNCHANGED <<idx, sql_vars>>

\* one iteration of the for loop: f.write(sql)
generate_sql_inserts_item ==
  /\ variant = "generate_sql_inserts"
  /\ pc = "loop"
  /\ idx <= Len(call.news_items)
  /\ output' = [output EXCEPT !.doc = Append(@, insert_statement(call.news_items[idx]))]
  /\ idx' = idx + 1
  /\ UNCHANGED <<pc, sql_vars>>

\* f.write("COMMIT;\n")
generate_sql_inserts_commit ==
  /\ variant = "generate_sql_inserts"
  /\ pc = "loop"
  /\ idx > Len(call.news_items)
  /\ output' = [output EXCEPT !.doc = Append(@, <<"COMMIT", ";", "LF">>)]
  /\ pc' = "done"
  /\ UNCHANGED <<idx, sql_vars>>

NextSql ==
  \/ generate_sql_inserts_begin
  \/ generate_sql_inserts_item
  \/ generate_sql_inserts_commit

SpecSql == InitSql /\ [][NextSql]_vars

----------------------------------------------------------------------------
(* Properties of the batch runs *)

\* the input is one the entry point loops over
BatchRecognized ==
  /\ input.load = "ok"
  /\ variant = "convert_file" => input.data.type \in {"dict", "list"}
  /\ variant = "convert_all" =>
       /\ input.data.type = "dict"
       /\ K_Sheet1 \in DOMAIN input.data.d
       /\ input.data.d[K_Sheet1].type = "list"

\* C1: in both batch loops an exception raised while converting record i never
\* aborts the batch, whatever the JSON type of the record: when the run has
\* ended, every record of the input was passed to convert_news_item and the
\* output document was written.
C1_RecordFailureNeverAborts ==
  (variant \in {"convert_file", "convert_all"} /\ pc = "done" /\ BatchRecognized)
    => (passed = DOMAIN source_data /\ output.written)

\* a source record whose body 正文 is missing (absent or null), empty or
\* whitespace-only
EmptyBodyRecord(item) ==
  /\ item.type = "dict"
  /\ \/ K_content \notin DOMAIN item.d
     \/ item.d[K_content].type = "null"
     \/ /\ item.d[K_content].type = "str"
        /\ \A i \in DOMAIN item.d[K_content].s : item.d[K_content].s[i] \in Whitespace

\* the title of a source record as a str ("" when absent)
TitleText(item) ==
  IF item.type = "dict" /\ K_title \in DOMAIN item.d /\ item.d[K_title].type = "str"
  THEN item.d[K_title].s
  ELSE <<>>

EmptyBodyPositions(S) == {i \in S : EmptyBodyRecord(source_data[i])}

\* C2: in convert_file every source record whose body is missing, empty or
\* whitespace-only is left out of converted_data and adds exactly one to
\* skipped_count: at every point skipped_count is the number of such records
\* among those processed and none of them is in the output; after the loop
\* skipped_count is their number in the whole input and the written document
\* holds none of them.
C2_EmptyBodySkipped ==
  variant = "convert_file" =>
    /\ skipped_count = Cardinality(EmptyBodyPositions(passed))
    /\ \A i \in EmptyBodyPositions(DOMAIN source_data) :
         \A k \in DOMAIN converted_data :
           converted_data[k].title # TitleText(source_data[i])
    /\ output.written =>
         /\ skipped_count = Cardinality(EmptyBodyPositions(DOMAIN source_data))
         /\ output.doc = converted_data

\* a finished convert_file run that skipped a record and converted another
C2_Witness ==
  /\ variant = "convert_file"
  /\ pc = "done"
  /\ output.written
  /\ Len(source_data) = 2
  /\ skipped_count = 1
  /\ Len(output.doc) = 1

TextRecord(item) ==
  /\ item.type = "dict"
  /\ K_title \in DOMAIN item.d => item.d[K_title].type = "str"
  /\ K_content \in DOMAIN item.d => item.d[K_content].type \in {"str", "null"}

BatchFatal ==
  /\ variant \in {"convert_file", "convert_all"}
  /\ ~BatchRecognized

\* C4: when the input is batch-fatal the output file is never opened for
\* writing.
C4_FatalInputWritesNothing == BatchFatal => ~output.written

\* C5: the category of every record convert_news_item returns is a member of
\* the converter's fixed category set; every label of the keyword table and
\* the default label are in NewsConverter's set.
C5_CategoryInFixedSet ==
  /\ \A c \in DOMAIN keyword_category_map :
       keyword_category_map[c].category \in NewsConverter_categories
  /\ DefaultCategory \in NewsConverter_categories
  /\ variant = "convert_file" =>
       \A k \in DOMAIN converted_data :
         converted_data[k].category \in NewsConverter_categories
  /\ variant = "convert_all" =>
       \A k \in DOMAIN converted_data :
         converted_data[k].category \in NewsDataConverter_categories

\* a finished convert_file run whose records carry the default label and a
\* label scored from a keyword
C5_Witness ==
  /\ variant = "convert_file"
  /\ pc = "done"
  /\ Len(converted_data) = 2
  /\ converted_data[1].category = DefaultCategory
  /\ converted_data[2].category = <<"u4f53", "u80b2">>

----------------------------------------------------------------------------
(* Properties of the single functions *)

\* s reads YYYY-MM-DD HH:MM:SS and names an instant that exists
ValidTimestamp(s) ==
  /\ Len(s) = 19
  /\ s[5] = "-" /\ s[8] = "-" /\ s[11] = " " /\ s[14] = ":" /\ s[17] = ":"
  /\ \A i \in {1, 2, 3, 4, 6, 7, 9, 10, 12, 13, 15, 16, 18, 19} : s[i] \in Digits
  /\ IntOf(SubSeq(s, 6, 7)) \in 1..12
  /\ IntOf(SubSeq(s, 9, 10)) >= 1
  /\ IntOf(SubSeq(s, 9, 10)) <= DaysInMonth(IntOf(SubSeq(s, 1, 4)), IntOf(SubSeq(s, 6, 7)))
  /\ IntOf(SubSeq(s, 12, 13)) <= 23
  /\ IntOf(SubSeq(s, 15, 16)) <= 59
  /\ IntOf(SubSeq(s, 18, 19)) <= 59

\* "2025年07月01日19:01" and "2025-07-01 19:01:00"
ExampleTime == SomePublishTime.s
ExampleStamp ==
  <<"2", "0", "2", "5", "-", "0", "7", "-", "0", "1", " ", "1", "9", ":", "0", "1", ":", "0", "0">>

\* C6: parse_datetime (both classes) returns, for every input string, a
\* string YYYY-MM-DD HH:MM:SS that denotes a valid timestamp, and
\* "2025年07月01日19:01" yields "2025-07-01 19:01:00".
C6_AlwaysValidTimestamp ==
  (variant = "parse_datetime" /\ pc = "return") =>
    /\ ValidTimestamp(ret)
    /\ call.date_str = ExampleTime => ret = ExampleStamp

\* C7: the summary is bounded: built by accumulation it is at most
\* max_length long, otherwise it is content[:max_length] + "..."; a content
\* longer than max_length without sentence-terminal punctuation yields that
\* truncation.
C7_SummaryBounded ==
  (variant = "generate_summary" /\ pc = "return") =>
    LET truncation == Prefix(call.content, call.max_length) \o <<".", ".", ".">>
    IN  /\ ret = truncation \/ Len(ret) <= call.max_length
        /\ (Len(call.content) > call.max_length /\ Range(call.content) \cap SentenceEnd = {})
             => ret = truncation

\* occurrences of keyword kw as a substring of text
Occurrences(text, kw) ==
  Cardinality({p \in 1..Len(text) :
                 /\ text[p] = kw[1]
                 /\ p + Len(kw) - 1 <= Len(text)
                 /\ \A j \in 1..Len(kw) : text[p + j - 1] = kw[j]})

RECURSIVE SumOccurrences(_, _, _)
SumOccurrences(text, kws, k) ==
  IF k = 0 THEN 0 ELSE Occurrences(text, kws[k]) + SumOccurrences(text, kws, k - 1)

FullPrecisionDates ==
  {t \in [year : {2024, 2025}, month : {2, 7}, day : {1, 30}, hour : {19}, minute : {1},
          second : {27}] : t.day <= DaysInMonth(t.year, t.month)}

\* YYYY年MM月DD日HH:MM:SS
FullPrecisionForm(t) ==
  Pad(t.year, 4) \o Nian \o Pad(t.month, 2) \o Yue \o Pad(t.day, 2) \o Ri
    \o Pad(t.hour, 2) \o <<":">> \o Pad(t.minute, 2) \o <<":">> \o Pad(t.second, 2)

\* YYYY-MM-DD HH:MM:SS
CanonicalForm(t) ==
  Pad(t.year, 4) \o <<"-">> \o Pad(t.month, 2) \o <<"-">> \o Pad(t.day, 2) \o <<" ">>
    \o Pad(t.hour, 2) \o <<":">> \o Pad(t.minute, 2) \o <<":">> \o Pad(t.second, 2)

\* C10: for a publish time in the form YYYY年MM月DD日HH:MM:SS, alone or inside
\* script boilerplate, parse_datetime (both classes) returns the canonical
\* string with the same year, month, day, hour, minute and second.
C10_FullPrecisionKept ==
  (variant = "parse_datetime" /\ pc = "return") =>
    \A t \in FullPrecisionDates :
      (\/ call.date_str = FullPrecisionForm(t)
       \/ call.date_str = ScriptMarker \o <<"(", ")">> \o FullPrecisionForm(t))
        => ret = CanonicalForm(t)

----------------------------------------------------------------------------
(* Properties of the SQL script *)

QuoteCount(s) == Cardinality({i \in DOMAIN s : s[i] = "'"})

\* s with every quote written twice
RECURSIVE Doubled(_)
Doubled(s) ==
  IF s = <<>> THEN <<>>
  ELSE IF s[Len(s)] = "'" THEN Doubled(SubSeq(s, 1, Len(s) - 1)) \o <<"'", "'">>
  ELSE Doubled(SubSeq(s, 1, Len(s) - 1)) \o <<s[Len(s)]>>

\* The scan of a statement keeps the number of open parentheses and whether
\* a quoted literal is open; a quote opens or closes a literal and
\* parentheses count outside literals only.  The summary of a run of tokens
\* gives, for a scan entering it outside (1) or inside (2) a literal, the
\* change of the number of open parentheses (net) and its lowest value on
\* the way (low), and tells whether the run holds an odd number of quotes.
TokenScan(tok) ==
  IF tok = "'" THEN [odd |-> TRUE, net |-> <<0, 0>>, low |-> <<0, 0>>]
  ELSE IF tok = "(" THEN [odd |-> FALSE, net |-> <<1, 0>>, low |-> <<0, 0>>]
  ELSE IF tok = ")" THEN [odd |-> FALSE, net |-> <<-1, 0>>, low |-> <<-1, 0>>]
  ELSE [odd |-> FALSE, net |-> <<0, 0>>, low |-> <<0, 0>>]

Least(a, b) == IF a < b THEN a ELSE b

\* the summary of run a followed by run b
ThenScan(a, b) ==
  LET into(e) == IF a.odd THEN 3 - e ELSE e
  IN  [odd |-> (a.odd # b.odd),
       net |-> [e \in {1, 2} |-> a.net[e] + b.net[into(e)]],
       low |-> [e \in {1, 2} |-> Least(a.low[e], a.net[e] + b.low[into(e)])]]

RECURSIVE RunScan(_, _, _)
RunScan(stmt, lo, hi) ==
  IF lo = hi THEN TokenScan(stmt[lo])
  ELSE LET mid == (lo + hi) \div 2
       IN  ThenScan(RunScan(stmt, lo, mid), RunScan(stmt, mid + 1, hi))

\* the parentheses outside literals balance and no literal is left open
Balanced(stmt) ==
  LET scan == RunScan(stmt, 1, Len(stmt))
  IN  ~scan.odd /\ scan.net[1] = 0 /\ scan.low[1] >= 0

\* the first token of the values: behind VALUES, "(" and the line feed
ValuesStart(stmt) == (CHOOSE i \in DOMAIN stmt : stmt[i] = "VALUES") + 3

\* C8: in generate_sql_inserts the literal of a text field is the value in
\* single quotes with every quote of the value doubled (k quotes give
\* 2k + 2), None is rendered NULL and booleans true/false, and each
\* statement starts with INSERT INTO news, has balanced parentheses outside
\* literals and ends with a semicolon.
C8_SqlStatementWellFormed ==
  variant = "generate_sql_inserts" =>
    /\ escape_sql(Null) = <<"NULL">>
    /\ escape_sql(Bool(TRUE)) = <<"true">>
    /\ escape_sql(Bool(FALSE)) = <<"false">>
    /\ \A k \in DOMAIN call.news_items :
         k < idx =>
           LET stmt    == output.doc[3 + k]
               title   == call.news_items[k].title.s
               literal == <<"'">> \o Doubled(title) \o <<"'">>
               start   == ValuesStart(stmt)
           IN  /\ stmt[1] = "INSERT INTO news"
               /\ SubSeq(stmt, start, start + Len(literal) - 1) = literal
               /\ stmt[start + Len(literal)] = ","
               /\ QuoteCount(escape_sql(call.news_items[k].title)) = 2 * QuoteCount(title) + 2
               /\ Balanced(stmt)
               /\ SubSeq(stmt, Len(stmt) - 2, Len(stmt)) = <<";", "LF", "LF">>

\* a written statement whose title holds a quote and a parenthesis
C8_Witness ==
  /\ variant = "generate_sql_inserts"
  /\ pc = "done"
  /\ Len(call.news_items) = 1
  /\ call.news_items[1].title.s = <<"'", ")">>
  /\ call.news_items[1].image_url.type = "str"
  /\ Len(output.doc) = 5

----------------------------------------------------------------------------
(* Order of the output *)

\* every pair of a source record convert_file can meet (an element of the
\* array, or the document itself when it is an object) and an outcome of
\* NewsConverter.convert_news_item on it
OutcomesOfFile ==
  {<<item, NewsConverter_convert_news_item(item, now)>> :
     item \in SourceItems \cup {v \in Documents : v.type = "dict"}, now \in Clock}

\* every pair of an element of Sheet1 and an outcome of
\* NewsDataConverter.convert_news_item on it
OutcomesOfAll ==
  {<<item, NewsDataConverter_convert_news_item(item, fallback, choice)>> :
     item \in SourceItems, fallback \in Clock, choice \in NewsDataConverter_categories}

Outcomes == IF variant = "convert_file" THEN OutcomesOfFile ELSE OutcomesOfAll

\* can record rec be what convert_news_item returns for source record item
ConvertedFrom(rec, item) == <<item, Returned(rec)>> \in Outcomes

\* position i was passed to convert_news_item, which returned a record
ConvertedPosition(i) ==
  /\ i \in passed
  /\ \E o \in Outcomes : o[1] = source_data[i] /\ o[2].exc = "none"

\* the processed positions whose conversion succeeded, in input order
ConvertedPositions ==
  SelectSeq([i \in DOMAIN source_data |-> i], ConvertedPosition)

\* the list of records in the written document
WrittenRecords ==
  IF variant = "convert_file" THEN output.doc ELSE output.doc.news_items

\* C11: in both batch loops the output keeps the input order: at every point
\* of the run converted_data / news_items holds, in input order, exactly one
\* record for each processed source record whose conversion succeeded and
\* nothing else; it is never longer than the number of records processed, and
\* the written collection is that list.
C11_OutputKeepsInputOrder ==
  variant \in {"convert_file", "convert_all"} =>
    LET converted == ConvertedPositions
    IN  /\ Len(converted_data) = Len(converted)
        /\ \A k \in DOMAIN converted_data :
             k <= Len(converted)
               => ConvertedFrom(converted_data[k], source_data[converted[k]])
        /\ Len(converted_data) <= Cardinality(passed)
        /\ output.written => WrittenRecords = converted_data

\* a finished convert_all run over two records with different titles, both
\* converted and written in the order of the input
C11_Witness ==
  /\ variant = "convert_all"
  /\ pc = "done"
  /\ output.written
  /\ Len(source_data) = 2
  /\ Len(converted_data) = 2
  /\ converted_data[1].title = <<"c">>
  /\ converted_data[2].title = <<"a">>
  /\ output.doc.news_items = converted_data
=============================================================================
